---- MODULE Spec2Model ----
(***************************************************************************)
(* Orchestration core of devload/agent-framework-philosophy.               *)
(*                                                                         *)
(*   message-bus model : Msg, MessageBus, BaseAgent and its variants       *)
(*                       (src/samples/agentscope/main.py)                  *)
(*   graph model       : MockCompiledGraph.invoke, route_by_priority, the  *)
(*                       node functions and build_travel_graph             *)
(*                       (src/samples/langgraph/main.py)                   *)
(*   travel system     : TravelPlanningSystem.run, _format_final_output    *)
(*                       (src/samples/agentscope/main.py)                  *)
(*   traced bus model  : TracedMessageBus, TracedAgent and its variants    *)
(*                       (src/samples/agentscope-with-otel/main.py)        *)
(*                                                                         *)
(* The specifications share the variables:                                 *)
(*   Spec       a MessageBus driven by register and send, with four        *)
(*              BaseAgent subclasses as participants                       *)
(*   SpecShapes a freshly built TravelPlanningSystem to which envelopes    *)
(*              of every shape are sent                                    *)
(*   SpecGraph  MockCompiledGraph.invoke over every small configuration    *)
(*   SpecRegister a MessageBus whose register calls are recorded           *)
(*   SpecFormat _format_final_output applied to every small log            *)
(*   SpecRun    TravelPlanningSystem.run, after sends made on its bus      *)
(*   SpecTraced the same sends made on an untraced and a traced system     *)
(*   SpecTravel invoke called once or twice on the graph that              *)
(*              build_travel_graph compiles, for any caller's context      *)
(*   SpecTracedRun ObservableTravelPlanningSystem.run, after sends made on *)
(*              its bus, with a ScheduleExpert that may fail               *)
(***************************************************************************)
EXTENDS Naturals, Sequences, FiniteSets

VARIABLES
    messages,           \* MessageBus.messages : the log
    agents,             \* MessageBus.agents   : dict name -> agent, in insertion order
    memory,             \* BaseAgent.memory of every agent object
    coordinator_state,  \* CoordinatorAgent.state
    next_id,            \* the next fresh Msg.id
    sends,              \* number of send calls made so far
    last,               \* what the last send call did
    nodes,              \* MockCompiledGraph.nodes : registered node names
    edges,              \* MockCompiledGraph.edges
    conditional_edges,  \* MockCompiledGraph.conditional_edges (the route maps)
    entry_point,        \* MockCompiledGraph.entry_point
    initial_state,      \* the mapping the caller passes to invoke
    state,              \* invoke's local state
    current_node,       \* invoke's local current_node
    status,             \* position of invoke: "idle", "running", "returned", "raised"
    path,               \* values current_node took at the top of the loop body
    step,               \* what the last iteration of the loop did
    previous,           \* the invoke call before the current one, when there was one
    created,            \* every Msg constructed so far, as constructed, by id
    registered,         \* the agent object of the last recorded register call
    traced,             \* the TracedMessageBus, its agents' memories and the spans
    run,                \* position and locals of TravelPlanningSystem.run
    final_output        \* what _format_final_output returned

busVars == <<messages, agents, memory, coordinator_state, next_id, sends, last, created>>
graphVars == <<nodes, edges, conditional_edges, entry_point, initial_state,
               state, current_node, status, path, step, previous>>
auxVars == <<registered, traced, run, final_output>>
vars == <<busVars, graphVars, auxVars>>

\* Python's None
NoneVal == "None"

(***************************************************************************)
(* Bounds                                                                  *)
(***************************************************************************)
MaxSends == 2        \* send calls in one behaviour of Spec
MaxShapeSends == 1   \* send calls in one behaviour of SpecShapes
MaxSteps == 4        \* loop iterations of invoke in one behaviour of SpecGraph
MaxRegisterSends == 2  \* send calls in one behaviour of SpecRegister
MaxLogLen == 3       \* length of the logs _format_final_output is applied to
MaxPreRunSends == 1  \* send calls made on the bus before run is called
MaxTracedSends == 2  \* send calls in one behaviour of SpecTraced
MaxTracedPreRunSends == 1  \* send calls made on the traced bus before run is called

(***************************************************************************)
(* Sequence helpers                                                        *)
(***************************************************************************)
Range(s) == {s[k] : k \in 1..Len(s)}

Count(s, x) == Cardinality({k \in 1..Len(s) : s[k] = x})

Last(s) == s[Len(s)]

(***************************************************************************)
(* Msg                                                                     *)
(***************************************************************************)
\* content: a str, or a dict with an optional "action" key and the payload
\* keys ("places", "schedule") abstracted to one "data" value
TextContent(t) == [type |-> "str", action |-> NoneVal, data |-> t]

DictContent(a, d) == [type |-> "dict", action |-> a, data |-> d]

\* Msg(name, content, role, to) with the generated id
Msg(n, c, r, t, i) == [name |-> n, content |-> c, role |-> r, to |-> t, id |-> i]

\* msg.content.get(key, default) for the payload key, on a dict content
ContentGet(c, default) == IF c.data = NoneVal THEN default ELSE c.data

(***************************************************************************)
(* Agent objects                                                           *)
(***************************************************************************)
\* The three variants of the travel system, a plain BaseAgent named "B", and
\* the participants of the routing scenarios, named "A", "B" and "C".
Inst == {"coordinator", "place_expert", "schedule_expert",
         "a_reply", "b_echo", "b_base", "c_silent"}

\* the agent objects registered by hand, outside the travel system
StubInst == {"a_reply", "b_echo", "b_base", "c_silent"}

AgentName(i) ==
    CASE i = "coordinator"     -> "Coordinator"
      [] i = "place_expert"    -> "PlaceExpert"
      [] i = "schedule_expert" -> "ScheduleExpert"
      [] i = "a_reply"         -> "A"
      [] i = "b_echo"          -> "B"
      [] i = "b_base"          -> "B"
      [] i = "c_silent"        -> "C"

\* outcome of _process: nothing, a response, or an exception
Nothing(cs) == [kind |-> "none", state |-> cs]
Response(m, cs) == [kind |-> "msg", msg |-> m, state |-> cs]
Raises(cs) == [kind |-> "raise", state |-> cs]

\* CoordinatorAgent._process; cs is self.state, id the id of a new Msg
CoordinatorProcessLateState(msg, cs, id) ==
    IF msg.role = "user"
    THEN Response(Msg("Coordinator", DictContent("request_places", "requirements"),
                      "assistant", "PlaceExpert", id), "collecting")
    ELSE IF msg.name = "PlaceExpert"
    THEN IF msg.content.type = "dict"
         THEN Response(Msg("Coordinator",
                           DictContent("create_schedule", ContentGet(msg.content, "empty")),
                           "assistant", "ScheduleExpert", id), cs)
         ELSE Raises(cs)
    ELSE IF msg.name = "ScheduleExpert"
    THEN IF msg.content.type = "dict"
         THEN Response(Msg("Coordinator",
                           DictContent("final_result", ContentGet(msg.content, "empty")),
                           "assistant", NoneVal, id), "finalizing")
         ELSE Raises(cs)
    ELSE Nothing(cs)

CoordinatorProcess(msg, cs, id) ==
    IF msg.role = "user"
    THEN Response(Msg("Coordinator", DictContent("request_places", "requirements"),
                      "assistant", "PlaceExpert", id), "collecting")
    ELSE IF msg.name = "PlaceExpert"
    THEN IF msg.content.type = "dict"
         THEN Response(Msg("Coordinator",
                           DictContent("create_schedule", ContentGet(msg.content, "empty")),
                           "assistant", "ScheduleExpert", id), cs)
         ELSE Raises(cs)                       \* str has no attribute get
    ELSE IF msg.name = "ScheduleExpert"
    THEN IF msg.content.type = "dict"
         THEN Response(Msg("Coordinator",
                           DictContent("final_result", ContentGet(msg.content, "empty")),
                           "assistant", NoneVal, id), "finalizing")
         ELSE Raises("finalizing")             \* state is set before content.get
    ELSE Nothing(cs)

\* PlaceExpertAgent._process
PlaceExpertProcess(msg, cs, id) ==
    IF msg.content.type = "dict" /\ msg.content.action = "request_places"
    THEN Response(Msg("PlaceExpert", DictContent("places_response", "places"),
                      "assistant", "Coordinator", id), cs)
    ELSE Nothing(cs)

\* ScheduleExpertAgent._process
ScheduleExpertSilent(msg, cs, id) == Nothing(cs)

ScheduleExpertProcess(msg, cs, id) ==
    IF msg.content.type = "dict" /\ msg.content.action = "create_schedule"
    THEN Response(Msg("ScheduleExpert", DictContent("schedule_response", "schedule"),
                      "assistant", "Coordinator", id), cs)
    ELSE Nothing(cs)

\* BaseAgent._process: "raise NotImplementedError"
BaseProcess(msg, cs, id) == Raises(cs)

\* _process of the three participants of the routing scenarios: one answers
\* the sender with a new envelope, one returns the envelope it was given
\* (which the bus has logged already), one returns None
ScenarioProcess(i, msg, cs, id) ==
    CASE i = "a_reply"  -> Response(Msg(AgentName(i), DictContent("pong", NoneVal),
                                        "assistant", msg.name, id), cs)
      [] i = "b_echo"   -> Response(msg, cs)
      [] i = "c_silent" -> Nothing(cs)

\* "self._process(msg)": the _process of the class of agent object i
Process(i, msg, cs, id) ==
    CASE i = "coordinator"     -> CoordinatorProcess(msg, cs, id)
      [] i = "place_expert"    -> PlaceExpertProcess(msg, cs, id)
      [] i = "schedule_expert" -> ScheduleExpertProcess(msg, cs, id)
      [] i = "b_base"          -> BaseProcess(msg, cs, id)
      [] OTHER                 -> ScenarioProcess(i, msg, cs, id)

\* BaseAgent.receive, as a function of the memory mem of agent i:
\* "self.memory.append(msg); return self._process(msg)"
ReceiveAppendsAfter(i, msg, mem, cs, id) ==
    LET out == Process(i, msg, cs, id)
    IN  [memory |-> IF out.kind = "raise" THEN mem ELSE Append(mem, msg), out |-> out]

ReceiveRewrites(i, msg, mem, cs, id) ==
    [memory |-> Append(mem, [msg EXCEPT !.content = TextContent("seen")]),
     out |-> Process(i, msg, cs, id)]

Receive(i, msg, mem, cs, id) ==
    [memory |-> Append(mem, msg), out |-> Process(i, msg, cs, id)]

(***************************************************************************)
(* MessageBus                                                              *)
(***************************************************************************)
\* position of name n in the dict (0 when absent)
IndexOf(ags, n) ==
    IF \E k \in 1..Len(ags) : ags[k].name = n
    THEN CHOOSE k \in 1..Len(ags) : ags[k].name = n
    ELSE 0

RegisteredNames(ags) == {ags[k].name : k \in 1..Len(ags)}

\* self.agents[agent.name] = agent : a new key is appended, an existing key
\* keeps its position and gets the new value
RegisterKeepsFirst(ags, i) ==
    LET k == IndexOf(ags, AgentName(i))
        e == [name |-> AgentName(i), inst |-> i]
    IN  IF k = 0 THEN Append(ags, e) ELSE ags

RegisterAgent(ags, i) ==
    LET k == IndexOf(ags, AgentName(i))
        e == [name |-> AgentName(i), inst |-> i]
    IN  IF k = 0 THEN Append(ags, e) ELSE [ags EXCEPT ![k] = e]

\* "if msg not in self.messages: self.messages.append(msg)"
LogSentAtFront(log, msg) ==
    IF msg \in Range(log) THEN log ELSE <<msg>> \o log

LogSentNever(log, msg) == log

LogSent(log, msg) == IF msg \in Range(log) THEN log ELSE Append(log, msg)

\* the state threaded through one send call; a Msg constructed for this call
\* has taken the id next_id
SendStart(msg) ==
    [messages |-> LogSent(messages, msg), memory |-> memory,
     coordinator_state |-> coordinator_state,
     next_id |-> IF msg.id = next_id THEN next_id + 1 ELSE next_id,
     created |-> IF msg.id = next_id THEN Append(created, msg) ELSE created,
     responses |-> <<>>, delivered |-> <<>>, raised |-> FALSE, raiser |-> NoneVal]

\* "response = agent.receive(msg); if response: responses.append(response);
\*  self.messages.append(response)" for agent object i
DeliverPrepends(acc, i, msg) ==
    LET r == Receive(i, msg, acc.memory[i], acc.coordinator_state, acc.next_id)
        a1 == [acc EXCEPT !.memory[i] = r.memory,
                          !.coordinator_state = r.out.state,
                          !.delivered = Append(@, i)]
    IN  CASE r.out.kind = "raise" -> [a1 EXCEPT !.raised = TRUE, !.raiser = i]
          [] r.out.kind = "none"  -> a1
          [] r.out.kind = "msg"   ->
                [a1 EXCEPT !.responses = <<r.out.msg>> \o @,
                           !.messages = Append(@, r.out.msg),
                           !.next_id = IF r.out.msg.id = acc.next_id THEN @ + 1 ELSE @,
                           !.created = IF r.out.msg.id = acc.next_id
                                       THEN Append(@, r.out.msg) ELSE @]

Deliver(acc, i, msg) ==
    LET r == Receive(i, msg, acc.memory[i], acc.coordinator_state, acc.next_id)
        a1 == [acc EXCEPT !.memory[i] = r.memory,
                          !.coordinator_state = r.out.state,
                          !.delivered = Append(@, i)]
    IN  CASE r.out.kind = "raise" -> [a1 EXCEPT !.raised = TRUE, !.raiser = i]
          [] r.out.kind = "none"  -> a1
          [] r.out.kind = "msg"   ->
                [a1 EXCEPT !.responses = Append(@, r.out.msg),
                           !.messages = Append(@, r.out.msg),
                           !.next_id = IF r.out.msg.id = acc.next_id THEN @ + 1 ELSE @,
                           !.created = IF r.out.msg.id = acc.next_id
                                       THEN Append(@, r.out.msg) ELSE @]

\* the recipients a broadcast visits: "if name != msg.name"
BroadcastToAll(ags, k, msg) == TRUE

BroadcastVisits(ags, k, msg) == ags[k].name # msg.name

\* an exception leaves the loop: the remaining agents are not visited
LoopContinuesAfterRaise(acc) == TRUE

LoopContinues(acc) == ~acc.raised

\* "for name, agent in self.agents.items()", from position k on
RECURSIVE Broadcast(_, _, _, _)
Broadcast(acc, ags, k, msg) ==
    IF k > Len(ags) \/ ~LoopContinues(acc)
    THEN acc
    ELSE Broadcast(IF BroadcastVisits(ags, k, msg) THEN Deliver(acc, ags[k].inst, msg) ELSE acc,
                   ags, k + 1, msg)

\* the direct branch: "if msg.to in self.agents: response = self.agents[msg.to].receive(msg)"
DirectUnguarded(acc, ags, msg) ==
    IF msg.to \in RegisteredNames(ags)
    THEN Deliver(acc, ags[IndexOf(ags, msg.to)].inst, msg)
    ELSE [acc EXCEPT !.raised = TRUE]

DirectToAll(acc, ags, msg) == Broadcast(acc, ags, 1, msg)

Direct(acc, ags, msg) ==
    IF msg.to \in RegisteredNames(ags)
    THEN Deliver(acc, ags[IndexOf(ags, msg.to)].inst, msg)
    ELSE acc

\* MessageBus.send: the final value of the state threaded through the call
SendResultSkipsLogged(msg) ==
    IF msg \in Range(messages)
    THEN SendStart(msg)
    ELSE IF msg.to # NoneVal
    THEN Direct(SendStart(msg), agents, msg)
    ELSE Broadcast(SendStart(msg), agents, 1, msg)

SendResult(msg) ==
    IF msg.to # NoneVal
    THEN Direct(SendStart(msg), agents, msg)
    ELSE Broadcast(SendStart(msg), agents, 1, msg)

Send(msg) ==
    LET r == SendResult(msg)
    IN  /\ messages' = r.messages
        /\ memory' = r.memory
        /\ coordinator_state' = r.coordinator_state
        /\ next_id' = r.next_id
        /\ created' = r.created
        /\ sends' = sends + 1
        /\ last' = [op |-> "send", msg |-> msg, responses |-> r.responses,
                    delivered |-> r.delivered, raised |-> r.raised,
                    raiser |-> r.raiser, messages |-> messages, memory |-> memory, agents |-> agents]
        /\ agents' = agents

\* MessageBus.register; "last" keeps describing the last send call
Register(i) ==
    /\ agents' = RegisterAgent(agents, i)
    /\ UNCHANGED <<messages, memory, coordinator_state, next_id, sends, last, created>>

\* no send call has been made
NoSend ==
    [op |-> "init", msg |-> Msg("", TextContent(""), "", NoneVal, 0),
     responses |-> <<>>, delivered |-> <<>>, raised |-> FALSE,
     raiser |-> NoneVal, messages |-> <<>>,
     memory |-> [i \in Inst |-> <<>>], agents |-> <<>>]

\* state of a bus whose dict is ags, before any send; every agent object is
\* constructed (empty memory, Coordinator idle)
BusInit(ags) ==
    /\ messages = <<>>
    /\ agents = ags
    /\ memory = [i \in Inst |-> <<>>]
    /\ coordinator_state = "idle"
    /\ next_id = 1
    /\ sends = 0
    /\ created = <<>>
    /\ last = NoSend

\* invoke has not been called before
NoRun == [status |-> "none", initial_state |-> <<>>, state |-> <<>>, path |-> <<>>]

\* no graph has been built
NoGraph ==
    /\ nodes = {}
    /\ edges = <<>>
    /\ conditional_edges = <<>>
    /\ entry_point = NoneVal
    /\ initial_state = <<>>
    /\ state = <<>>
    /\ current_node = NoneVal
    /\ status = "idle"
    /\ path = <<>>
    /\ step = <<>>
    /\ previous = NoRun

\* a TracedMessageBus and its agents after construction
TracedBusInit ==
    [messages |-> <<>>, memory |-> [i \in Inst |-> <<>>], next_id |-> 1,
     responses |-> <<>>, raised |-> NoneVal, raiser |-> NoneVal,
     failed |-> FALSE, spans |-> <<>>]

\* run has not been called
RunIdle ==
    [pc |-> "idle", responses |-> <<>>, next_responses |-> <<>>,
     produced |-> <<>>, forwarded |-> <<>>]

\* _format_final_output has not been called
NotCalled == [kind |-> "none", text |-> NoneVal, schedule |-> NoneVal]

\* nothing is traced, run and _format_final_output have not been called
NoAux ==
    /\ registered = NoneVal
    /\ traced = TracedBusInit
    /\ run = RunIdle
    /\ final_output = NotCalled

(***************************************************************************)
(* Spec: a MessageBus under register and send                              *)
(***************************************************************************)
BusSenders == {"C", "User"}

BusRecipients == {NoneVal, "A", "B", "C"}

\* bus.register(agent) for one of the BaseAgent subclasses
RegisterStub ==
    /\ \E i \in StubInst : Register(i)
    /\ UNCHANGED <<graphVars, auxVars>>

\* bus.send(Msg(...)) with a newly constructed envelope
SendNew ==
    /\ sends < MaxSends
    /\ \E n \in BusSenders, t \in BusRecipients :
          Send(Msg(n, TextContent("ping"), "assistant", t, next_id))
    /\ UNCHANGED <<graphVars, auxVars>>

\* bus.send(m) with an envelope that is already in the log
SendLogged ==
    /\ sends < MaxSends
    /\ \E k \in 1..Len(messages) : Send(messages[k])
    /\ UNCHANGED <<graphVars, auxVars>>

\* MessageBus.__init__: nothing registered
Init == BusInit(<<>>) /\ NoGraph /\ NoAux

Next == RegisterStub \/ SendNew \/ SendLogged

Spec == Init /\ [][Next]_vars

(***************************************************************************)
(* SpecShapes: envelopes of every shape sent to the travel system          *)
(***************************************************************************)
ShapeSenders == {"User", "Coordinator", "PlaceExpert", "ScheduleExpert"}

ShapeRoles == {"user", "assistant"}

ShapeRecipients == {NoneVal, "Coordinator", "PlaceExpert", "ScheduleExpert"}

ShapeActions == {NoneVal, "request_places", "places_response", "create_schedule",
                 "schedule_response", "final_result", "ping"}

ShapeContents == {TextContent("text")} \cup {DictContent(a, NoneVal) : a \in ShapeActions}

\* TravelPlanningSystem.__init__: the three variants registered in this order
TravelAgents ==
    <<[name |-> "Coordinator", inst |-> "coordinator"],
      [name |-> "PlaceExpert", inst |-> "place_expert"],
      [name |-> "ScheduleExpert", inst |-> "schedule_expert"]>>

\* bus.send(Msg(name, content, role, to)) for any sender, role, recipient and payload
SendShape ==
    /\ sends < MaxShapeSends
    /\ \E n \in ShapeSenders, r \in ShapeRoles, t \in ShapeRecipients, c \in ShapeContents :
          Send(Msg(n, c, r, t, next_id))
    /\ UNCHANGED <<graphVars, auxVars>>

ShapesInit == BusInit(TravelAgents) /\ NoGraph /\ NoAux

ShapesNext == SendShape

SpecShapes == ShapesInit /\ [][ShapesNext]_vars

(***************************************************************************)
(* Graph engine: MockCompiledGraph                                         *)
(***************************************************************************)
NodeNames == {"a", "b", "c"}

Labels == {"minimize", "variety"}

Priorities == {"minimize_travel", "maximize_variety"}

\* all dicts with keys in K and values in V
Dicts(K, V) == UNION {[D -> V] : D \in SUBSET K}

\* route_by_priority
route_by_priority_swapped(st) ==
    IF st["priority"] = "minimize_travel" THEN "variety" ELSE "minimize"

route_by_priority(st) ==
    IF st["priority"] = "minimize_travel" THEN "minimize" ELSE "variety"

\* state.update(result)
UpdateKeepsOld(st, result) ==
    [f \in DOMAIN st \cup DOMAIN result |->
        IF f \in DOMAIN st THEN st[f] ELSE result[f]]

Update(st, result) ==
    [f \in DOMAIN st \cup DOMAIN result |->
        IF f \in DOMAIN result THEN result[f] ELSE st[f]]

\* dict.get(key): None when the key is absent
Get(d, key) == IF key \in DOMAIN d THEN d[key] ELSE NoneVal

\* "다음 노드 결정": the value given to current_node at the end of an iteration
NextNodeStale(n, st) ==
    IF n \in DOMAIN conditional_edges
    THEN Get(conditional_edges[n], route_by_priority(state))
    ELSE IF n \in DOMAIN edges
    THEN edges[n]
    ELSE NoneVal

NextNodeNoRevisit(n, st) ==
    LET next == IF n \in DOMAIN conditional_edges
                THEN Get(conditional_edges[n], route_by_priority(st))
                ELSE IF n \in DOMAIN edges
                THEN edges[n]
                ELSE NoneVal
    IN  IF next \in Range(path) \cup {n} THEN NoneVal ELSE next

NextNodeFixedFirst(n, st) ==
    IF n \in DOMAIN edges
    THEN edges[n]
    ELSE IF n \in DOMAIN conditional_edges
    THEN Get(conditional_edges[n], route_by_priority(st))
    ELSE NoneVal

NextNodeStays(n, st) ==
    IF n \in DOMAIN conditional_edges
    THEN Get(conditional_edges[n], route_by_priority(st))
    ELSE IF n \in DOMAIN edges
    THEN edges[n]
    ELSE n

NextNode(n, st) ==
    IF n \in DOMAIN conditional_edges
    THEN Get(conditional_edges[n], route_by_priority(st))
    ELSE IF n \in DOMAIN edges
    THEN edges[n]
    ELSE NoneVal

(***************************************************************************)
(* The travel graph: node functions and build_travel_graph                 *)
(***************************************************************************)
\* outcomes of a node function: the partial update it returns, or KeyError
\* for state[key] on a missing key
Returns(update) == [kind |-> "ok", update |-> update]

KeyError == [kind |-> "raise", update |-> <<>>]

\* the strings the node functions test for
QuietCafe == "quiet_cafe"              \* "조용한 카페"

Exhibition == "exhibition_visit"       \* "전시"

SoloMeal == "solo_meal"                \* "혼밥 가능"

MinimizeRoute == "minimize_route"      \* "이동 동선 최소화"

\* state.get("execution_log", []) + log, the log lines of a node written as
\* the one line that names the node
ReplaceLog(st, node) == <<node>>

ExtendLog(st, node) ==
    (IF "execution_log" \in DOMAIN st THEN st["execution_log"] ELSE <<>>) \o <<node>>

\* [Node 1] parse_request
parse_request_keeps(st) ==
    IF "raw_request" \notin DOMAIN st
    THEN KeyError
    ELSE Returns([duration |-> "1n2d",
                  travel_style |-> "solo",
                  preferences |-> <<QuietCafe, Exhibition>>,
                  constraints |-> IF "constraints" \in DOMAIN st
                                  THEN st["constraints"]
                                  ELSE <<SoloMeal, MinimizeRoute>>,
                  execution_log |-> ExtendLog(st, "parse_request")])

parse_request(st) ==
    IF "raw_request" \notin DOMAIN st
    THEN KeyError
    ELSE Returns([duration |-> "1n2d",
                  travel_style |-> "solo",
                  preferences |-> <<QuietCafe, Exhibition>>,
                  constraints |-> <<SoloMeal, MinimizeRoute>>,
                  execution_log |-> ExtendLog(st, "parse_request")])

\* [Node 2] analyze_preferences
analyze_preferences(st) ==
    IF ~({"preferences", "constraints"} \subseteq DOMAIN st)
    THEN KeyError
    ELSE Returns([place_types_needed |->
                      (IF QuietCafe \in Range(st["preferences"]) THEN <<"cafe">> ELSE <<>>)
                      \o (IF Exhibition \in Range(st["preferences"])
                          THEN <<"exhibition">> ELSE <<>>)
                      \o <<"restaurant">>,
                  priority |-> IF MinimizeRoute \in Range(st["constraints"])
                               THEN "minimize_travel" ELSE "maximize_variety",
                  execution_log |-> ExtendLog(st, "analyze_preferences")])

\* the place chosen for a type: the first candidate of the given ordering
Place(type, pick) == [type |-> type, pick |-> pick]

\* [Node 3a] select_places_minimize_travel: one place per needed type, then
\* one more cafe and one more exhibition
select_places_minimize_travel(st) ==
    IF "place_types_needed" \notin DOMAIN st
    THEN KeyError
    ELSE LET types == st["place_types_needed"]
         IN  Returns([selected_places |->
                          [k \in 1..Len(types) |-> Place(types[k], "nearest")]
                          \o <<Place("cafe", IF "cafe" \in Range(types)
                                             THEN "next_nearest" ELSE "nearest"),
                               Place("exhibition", IF "exhibition" \in Range(types)
                                                   THEN "next_nearest" ELSE "nearest")>>,
                      execution_log |-> ExtendLog(st, "select_places_minimize")])

\* [Node 3b] select_places_maximize_variety: one place per needed type
select_places_maximize_variety(st) ==
    IF "place_types_needed" \notin DOMAIN st
    THEN KeyError
    ELSE LET types == st["place_types_needed"]
         IN  Returns([selected_places |->
                          [k \in 1..Len(types) |-> Place(types[k], "unused_area")],
                      execution_log |-> ExtendLog(st, "select_places_variety")])

\* the places of one type, in order
OfType(places, type) == SelectSeq(places, LAMBDA p : p.type = type)

Item(time, place) == [time |-> time, place |-> place]

\* [Node 4] generate_schedule
generate_schedule(st) ==
    IF "selected_places" \notin DOMAIN st
    THEN KeyError
    ELSE LET places == st["selected_places"]
             cafes == OfType(places, "cafe")
             exhibitions == OfType(places, "exhibition")
             restaurants == OfType(places, "restaurant")
         IN  Returns([day1_schedule |->
                          (IF cafes # <<>> THEN <<Item("10:00", cafes[1])>> ELSE <<>>)
                          \o (IF exhibitions # <<>>
                              THEN <<Item("14:00", exhibitions[1])>> ELSE <<>>)
                          \o (IF restaurants # <<>>
                              THEN <<Item("18:00", restaurants[1])>> ELSE <<>>),
                      day2_schedule |->
                          (IF Len(cafes) > 1 THEN <<Item("09:00", cafes[2])>> ELSE <<>>)
                          \o (IF Len(exhibitions) > 1
                              THEN <<Item("11:00", exhibitions[2])>>
                              ELSE IF exhibitions # <<>>
                              THEN <<Item("11:00", Place("walk", "fixed"))>>
                              ELSE <<>>),
                      execution_log |-> ExtendLog(st, "generate_schedule")])

\* [Node 5] format_output: the text names the priority
format_output(st) ==
    IF ~({"day1_schedule", "day2_schedule", "priority"} \subseteq DOMAIN st)
    THEN KeyError
    ELSE Returns([final_output |-> IF st["priority"] = "minimize_travel"
                                   THEN "itinerary_minimize_travel"
                                   ELSE "itinerary_other",
                  execution_log |-> ExtendLog(st, "format_output")])

\* build_travel_graph: nodes, edges, conditional_edges, entry point
TravelNodes ==
    {"parse_request", "analyze_preferences", "select_places_minimize",
     "select_places_variety", "generate_schedule", "format_output"}

TravelEdges ==
    [parse_request |-> "analyze_preferences",
     select_places_minimize |-> "generate_schedule",
     select_places_variety |-> "generate_schedule",
     generate_schedule |-> "format_output",
     format_output |-> NoneVal]

TravelConditionalEdges ==
    [analyze_preferences |->
        [minimize |-> "select_places_minimize", variety |-> "select_places_variety"]]

TravelEntryPoint == "parse_request"

\* self.nodes[current_node](state) for a node of the travel graph
TravelNodeFunction(n, st) ==
    CASE n = "parse_request"          -> parse_request(st)
      [] n = "analyze_preferences"    -> analyze_preferences(st)
      [] n = "select_places_minimize" -> select_places_minimize_travel(st)
      [] n = "select_places_variety"  -> select_places_maximize_variety(st)
      [] n = "generate_schedule"      -> generate_schedule(st)
      [] n = "format_output"          -> format_output(st)

\* "if current_node in self.nodes": the node function is called
ExecutesUnlessLast(n) == n \in nodes /\ NextNode(n, state) # NoneVal

Executes(n) == n \in nodes

\* the partial updates a node function may return: nothing, or a priority
Updates == Dicts({"priority"}, Priorities)

\* the mappings a caller may pass to invoke
InitialStates == {[raw_request |-> "req", priority |-> p] : p \in Priorities \cup {""}}

NoStep ==
    [node |-> NoneVal, executed |-> FALSE, before |-> <<>>, result |-> <<>>,
     conditional |-> FALSE, route_key |-> NoneVal, mapped |-> FALSE, next |-> NoneVal]

\* MockCompiledGraph(nodes, edges, conditional_edges, entry_point), before
\* invoke: the registry holds every name or lacks "c", any fixed edges, and a
\* route map on "a", on "b" or on no node
GraphInit ==
    /\ BusInit(<<>>)
    /\ NoAux
    /\ nodes \in {NodeNames, NodeNames \ {"c"}}
    /\ edges \in Dicts(NodeNames, NodeNames \cup {NoneVal})
    /\ conditional_edges \in
          UNION {[D -> Dicts(Labels, NodeNames)] : D \in {{}, {"a"}, {"b"}}}
    /\ entry_point \in {"a", "c"}
    /\ initial_state = <<>>
    /\ state = <<>>
    /\ current_node = NoneVal
    /\ status = "idle"
    /\ path = <<>>
    /\ step = NoStep
    /\ previous = NoRun

\* the contexts a caller may pass to the travel graph: a full TravelState as
\* main builds it, with some keys left out or already filled in
FullTravelState(constraints, priority, log) ==
    [raw_request |-> "req", constraints |-> constraints, priority |-> priority,
     execution_log |-> log]

TravelInitialStates ==
    {[k \in D |-> FullTravelState(c, p, l)[k]] :
        D \in {{"raw_request", "constraints", "priority", "execution_log"},
               {"raw_request", "constraints", "priority"},
               {"raw_request"},
               {"constraints", "priority", "execution_log"}},
        c \in {<<>>, <<SoloMeal>>, <<MinimizeRoute>>},
        p \in {"", "minimize_travel", "maximize_variety"},
        l \in {<<>>, <<"earlier">>}}

\* the contexts a caller may pass to invoke on this graph
CallerStates == IF nodes = TravelNodes THEN TravelInitialStates ELSE InitialStates

\* what self.nodes[n](st) may do: a node of the travel graph is its function,
\* any other node returns some partial update
NodeOutcomes(n, st) ==
    IF nodes = TravelNodes
    THEN {TravelNodeFunction(n, st)}
    ELSE {Returns(result) : result \in Updates}

\* "state = dict(initial_state)": a new mapping with the caller's items
LocalCopyStale(init) == IF DOMAIN state = {} THEN init ELSE Update(init, state)

LocalCopy(init) == init

\* the caller's mapping after "state.update(result)" made the local state st:
\* state is a copy, so the update does not reach the mapping passed in
CallerMappingAliased(init, st) == st

CallerMapping(init, st) == init

\* invoke(initial_state), up to the loop: "state = dict(initial_state);
\* current_node = self.entry_point"
InvokeStart ==
    /\ status = "idle"
    /\ \E init \in CallerStates :
          /\ initial_state' = init
          /\ state' = LocalCopy(init)
    /\ current_node' = entry_point
    /\ status' = "running"
    /\ UNCHANGED <<nodes, edges, conditional_edges, entry_point, path, step, previous>>
    /\ UNCHANGED <<busVars, auxVars>>

\* one iteration of "while current_node", and the return when the loop ends
InvokeStep ==
    /\ status = "running"
    /\ nodes = TravelNodes \/ Len(path) < MaxSteps
    /\ \E out \in NodeOutcomes(current_node, state) :
          LET executed == Executes(current_node)
              raised == executed /\ out.kind = "raise"
              merged == executed /\ ~raised
              st == IF merged THEN Update(state, out.update) ELSE state
              routed == ~raised /\ current_node \in DOMAIN conditional_edges
              next == IF raised THEN NoneVal ELSE NextNode(current_node, st)
          IN  /\ state' = st
              /\ initial_state' = CallerMapping(initial_state, st)
              /\ current_node' = next
              /\ status' = IF raised THEN "raised"
                           ELSE IF next = NoneVal THEN "returned" ELSE "running"
              /\ path' = Append(path, current_node)
              /\ step' = [node |-> current_node, executed |-> executed,
                          before |-> state,
                          result |-> IF merged THEN out.update ELSE <<>>,
                          conditional |-> current_node \in DOMAIN conditional_edges,
                          route_key |-> IF routed THEN route_by_priority(st) ELSE NoneVal,
                          mapped |-> /\ routed
                                     /\ route_by_priority(st) \in
                                            DOMAIN conditional_edges[current_node],
                          next |-> next]
    /\ UNCHANGED <<nodes, edges, conditional_edges, entry_point, previous>>
    /\ UNCHANGED <<busVars, auxVars>>

GraphNext == InvokeStart \/ InvokeStep

SpecGraph == GraphInit /\ [][GraphNext]_vars

\* build_travel_graph(), before invoke
TravelInit ==
    /\ BusInit(<<>>)
    /\ NoAux
    /\ nodes = TravelNodes
    /\ edges = TravelEdges
    /\ conditional_edges = TravelConditionalEdges
    /\ entry_point = TravelEntryPoint
    /\ initial_state = <<>>
    /\ state = <<>>
    /\ current_node = NoneVal
    /\ status = "idle"
    /\ path = <<>>
    /\ step = NoStep
    /\ previous = NoRun

\* a second invoke(initial_state) on the same compiled graph, after the first
\* one returned or raised
InvokeAgain ==
    /\ status \in {"returned", "raised"}
    /\ previous = NoRun
    /\ previous' = [status |-> status, initial_state |-> initial_state,
                    state |-> state, path |-> path]
    /\ \E init \in CallerStates :
          /\ initial_state' = init
          /\ state' = LocalCopy(init)
    /\ current_node' = entry_point
    /\ status' = "running"
    /\ path' = <<>>
    /\ step' = NoStep
    /\ UNCHANGED <<nodes, edges, conditional_edges, entry_point>>
    /\ UNCHANGED <<busVars, auxVars>>

TravelNext == InvokeStart \/ InvokeStep \/ InvokeAgain

SpecTravel == TravelInit /\ [][TravelNext]_vars

(***************************************************************************)
(* SpecRegister: register calls recorded, each followed by any sends       *)
(***************************************************************************)
RegisterRecipients == {NoneVal, "A", "B"}

\* bus.register(agent), remembering which agent object was passed
RegisterCall ==
    /\ \E i \in StubInst : Register(i) /\ registered' = i
    /\ UNCHANGED <<graphVars, traced, run, final_output>>

\* bus.send(Msg(...)) by an outsider, to a name or to everybody
SendRegistered ==
    /\ sends < MaxRegisterSends
    /\ \E t \in RegisterRecipients :
          Send(Msg("User", TextContent("ping"), "assistant", t, next_id))
    /\ UNCHANGED <<graphVars, auxVars>>

RegisterNext == RegisterCall \/ SendRegistered

SpecRegister == Init /\ [][RegisterNext]_vars

(***************************************************************************)
(* TravelPlanningSystem._format_final_output                               *)
(***************************************************************************)
\* the string returned when no final result is in the log ("일정 생성 실패")
NoResultText == "no_result"

\* outcomes of a call: the text returned, and for the text of a schedule
\* the schedule it was built from
Returned(t, s) == [kind |-> "return", text |-> t, schedule |-> s]

FormatRaises == [kind |-> "raise", text |-> NoneVal, schedule |-> NoneVal]

\* _format_schedule: the text built from a schedule mapping; a schedule that
\* is no mapping (here "malformed") has no get and makes it raise
FormatSchedule(schedule) ==
    IF schedule = "malformed"
    THEN FormatRaises
    ELSE Returned("formatted", schedule)

\* the test of the loop body on one envelope
IsFinalResult(msg) ==
    /\ msg.name = "Coordinator"
    /\ msg.content.type = "dict"
    /\ msg.content.action = "final_result"

\* "for msg in reversed(self.bus.messages)", from position k downwards
RECURSIVE ScanReversed(_, _)
ScanReversed(log, k) ==
    IF k = 0 THEN Returned(NoResultText, NoneVal)
    ELSE IF IsFinalResult(log[k])
         THEN FormatSchedule(ContentGet(log[k].content, "empty"))
         ELSE ScanReversed(log, k - 1)

FormatFinalOutputForward(log) ==
    LET M == {k \in 1..Len(log) : IsFinalResult(log[k])}
    IN  IF M = {} THEN Returned(NoResultText, NoneVal)
        ELSE LET k == CHOOSE k \in M : \A h \in M : k <= h
             IN  FormatSchedule(ContentGet(log[k].content, "empty"))

FormatFinalOutput(log) == ScanReversed(log, Len(log))

(***************************************************************************)
(* SpecFormat: _format_final_output applied to every small log             *)
(***************************************************************************)
Schedules == {NoneVal, "schedule", "other_schedule", "malformed"}

\* the envelopes of the logs, without their ids
LogShapes ==
    {[name |-> "Coordinator", content |-> DictContent("final_result", d),
      role |-> "assistant", to |-> NoneVal] : d \in Schedules}
    \cup
    {[name |-> "Coordinator", content |-> DictContent("create_schedule", "places"),
      role |-> "assistant", to |-> "ScheduleExpert"],
     [name |-> "Coordinator", content |-> TextContent("final_result"),
      role |-> "assistant", to |-> NoneVal],
     [name |-> "ScheduleExpert", content |-> DictContent("final_result", "schedule"),
      role |-> "assistant", to |-> NoneVal],
     [name |-> "User", content |-> TextContent("request"),
      role |-> "user", to |-> "Coordinator"]}

\* logs of at most MaxLogLen envelopes, the k-th constructed k-th
FormatLogs ==
    UNION {{[k \in 1..n |-> Msg(f[k].name, f[k].content, f[k].role, f[k].to, k)] :
                f \in [1..n -> LogShapes]} : n \in 0..MaxLogLen}

FormatInit ==
    /\ messages \in FormatLogs
    /\ agents = TravelAgents
    /\ memory = [i \in Inst |-> <<>>]
    /\ coordinator_state = "idle"
    /\ next_id = Len(messages) + 1
    /\ sends = 0
    /\ created = messages
    /\ last = NoSend
    /\ NoGraph
    /\ NoAux

\* final_output = self._format_final_output()
FormatOutput ==
    /\ final_output = NotCalled
    /\ final_output' = FormatFinalOutput(messages)
    /\ UNCHANGED <<busVars, graphVars, registered, traced, run>>

FormatNext == FormatOutput

SpecFormat == FormatInit /\ [][FormatNext]_vars

(***************************************************************************)
(* TravelPlanningSystem.run                                                *)
(***************************************************************************)
\* "if response.to:" : the responses the loop passes to bus.send
RunForwardsAll(response) == TRUE

RunForwards(response) == response.to # NoneVal

\* the position after one response of the for loop is done: the for loop
\* goes on, or "responses = next_responses" starts the next round, or the
\* while loop ends
EndOfRoundStops(r) ==
    IF r.responses # <<>> THEN r ELSE [r EXCEPT !.pc = "done", !.next_responses = <<>>]

EndOfRound(r) ==
    IF r.responses # <<>> THEN r
    ELSE IF r.next_responses # <<>>
         THEN [r EXCEPT !.responses = r.next_responses, !.next_responses = <<>>]
         ELSE [r EXCEPT !.pc = "done"]

\* the locals after a send of the loop returned (or raised)
AfterSend(r, s) ==
    IF s.raised
    THEN [r EXCEPT !.pc = "raised"]
    ELSE EndOfRound([r EXCEPT !.next_responses = @ \o s.responses,
                              !.produced = @ \o s.responses])

\* leaving the while loop: "final_output = self._format_final_output()"
OutputAt(r, log) ==
    IF r.pc = "done" THEN FormatFinalOutput(log) ELSE final_output

\* "user_msg = Msg(...); responses = self.bus.send(user_msg)"
RunStart ==
    /\ run.pc = "idle"
    /\ LET user_msg == Msg("User", TextContent("request"), "user", "Coordinator", next_id)
           s == SendResult(user_msg)
           r == AfterSend([run EXCEPT !.pc = "loop"], s)
       IN  /\ Send(user_msg)
           /\ run' = r
           /\ final_output' = OutputAt(r, s.messages)
    /\ UNCHANGED <<graphVars, registered, traced>>

\* one pass of the body of "for response in responses"
RunForward ==
    /\ run.pc = "loop"
    /\ LET response == Head(run.responses)
           rest == [run EXCEPT !.responses = Tail(@)]
       IN  IF RunForwards(response)
           THEN LET s == SendResult(response)
                    r == AfterSend([rest EXCEPT !.forwarded = Append(@, response)], s)
                IN  /\ Send(response)
                    /\ run' = r
                    /\ final_output' = OutputAt(r, s.messages)
           ELSE LET r == EndOfRound(rest)
                IN  /\ UNCHANGED busVars
                    /\ run' = r
                    /\ final_output' = OutputAt(r, messages)
    /\ UNCHANGED <<graphVars, registered, traced>>

(***************************************************************************)
(* SpecRun: run called on a travel system whose bus may have been used     *)
(***************************************************************************)
PreRunSenders == {"ScheduleExpert", "Coordinator"}

PreRunRecipients == {NoneVal, "Coordinator"}

PreRunContents ==
    {TextContent("text"), DictContent("final_result", "other_schedule"),
     DictContent("schedule_response", "other_schedule")}

\* system.bus.send(Msg(...)) before system.run(...)
PreRunSend ==
    /\ run.pc = "idle"
    /\ sends < MaxPreRunSends
    /\ \E n \in PreRunSenders, r \in ShapeRoles, t \in PreRunRecipients,
          c \in PreRunContents : Send(Msg(n, c, r, t, next_id))
    /\ UNCHANGED <<graphVars, auxVars>>

RunNext == PreRunSend \/ RunStart \/ RunForward

SpecRun == ShapesInit /\ [][RunNext]_vars

(***************************************************************************)
(* TracedMessageBus and TracedAgent                                        *)
(* (src/samples/agentscope-with-otel/main.py)                              *)
(***************************************************************************)
\* exceptions, written as their descriptions str(e)
AttributeError == "'str' object has no attribute 'get'"

RouteFailure == "Route optimization failed: timeout after 30s"

NotImplemented == "NotImplementedError"

\* outcomes of _process(msg, tracer)
TNothing == [kind |-> "none"]

TResponse(m) == [kind |-> "msg", msg |-> m]

TRaises(e) == [kind |-> "raise", exc |-> e]

\* CoordinatorAgent._process of the traced system
TracedCoordinatorProcess(msg, id) ==
    IF msg.role = "user"
    THEN TResponse(Msg("Coordinator", DictContent("request_places", "requirements"),
                       "assistant", "PlaceExpert", id))
    ELSE IF msg.name = "PlaceExpert"
    THEN IF msg.content.type = "dict"
         THEN TResponse(Msg("Coordinator",
                            DictContent("create_schedule", ContentGet(msg.content, "empty")),
                            "assistant", "ScheduleExpert", id))
         ELSE TRaises(AttributeError)
    ELSE IF msg.name = "ScheduleExpert"
    THEN IF msg.content.type = "dict"
         THEN TResponse(Msg("Coordinator",
                            DictContent("final_result", ContentGet(msg.content, "empty")),
                            "assistant", NoneVal, id))
         ELSE TRaises(AttributeError)
    ELSE TNothing

\* PlaceExpertAgent._process of the traced system
TracedPlaceExpertProcess(msg, id) ==
    IF msg.content.type = "dict" /\ msg.content.action = "request_places"
    THEN TResponse(Msg("PlaceExpert", DictContent("places_response", "places"),
                       "assistant", "Coordinator", id))
    ELSE TNothing

\* ScheduleExpertAgent._process of the traced system; fail is the outcome of
\* "random.random() < self.failure_rate"
TracedScheduleExpertProcess(msg, id, fail) ==
    IF msg.content.type = "dict" /\ msg.content.action = "create_schedule"
    THEN IF fail
         THEN TRaises(RouteFailure)
         ELSE TResponse(Msg("ScheduleExpert", DictContent("schedule_response", "schedule"),
                            "assistant", "Coordinator", id))
    ELSE TNothing

\* self._process(msg, tracer) of agent object i
TracedProcess(i, msg, id, fail) ==
    CASE i = "coordinator"     -> TracedCoordinatorProcess(msg, id)
      [] i = "place_expert"    -> TracedPlaceExpertProcess(msg, id)
      [] i = "schedule_expert" -> TracedScheduleExpertProcess(msg, id, fail)
      [] OTHER                 -> TRaises(NotImplemented)

\* what the tracer is told: an event ev on the span named span
Event(span, ev, arg) == [span |-> span, ev |-> ev, arg |-> arg]

\* the span "agent.<name>.process"
AgentSpan(i) == AgentName(i)

\* the span "message: <from> -> <to>"
MessageSpan == "message"

\* TracedAgent.receive: the memory, the outcome and the events on its span
TracedReceiveNoExcept(i, msg, mem, id, fail) ==
    LET out == TracedProcess(i, msg, id, fail)
    IN  [memory |-> Append(mem, msg),
         out |-> out,
         spans |-> <<Event(AgentSpan(i), "start", NoneVal)>>
                   \o (IF out.kind = "msg"
                       THEN <<Event(AgentSpan(i), "set_attribute", "output.message_id")>>
                       ELSE <<>>)
                   \o <<Event(AgentSpan(i), "end", NoneVal)>>]

TracedReceive(i, msg, mem, id, fail) ==
    LET out == TracedProcess(i, msg, id, fail)
    IN  [memory |-> Append(mem, msg),
         out |-> out,
         spans |-> <<Event(AgentSpan(i), "start", NoneVal)>>
                   \o (CASE out.kind = "msg" ->
                              <<Event(AgentSpan(i), "set_attribute", "output.message_id")>>
                         [] out.kind = "none" -> <<>>
                         [] out.kind = "raise" ->
                              <<Event(AgentSpan(i), "set_status_error", out.exc),
                                Event(AgentSpan(i), "record_exception", out.exc)>>)
                   \o <<Event(AgentSpan(i), "end", NoneVal)>>]

\* TracedMessageBus.send up to the opening of its span
TracedSendStartAtFront(tr, msg) ==
    [tr EXCEPT !.messages = IF msg \in Range(@) THEN @ ELSE <<msg>> \o @,
               !.next_id = IF msg.id >= @ THEN msg.id + 1 ELSE @,
               !.responses = <<>>,
               !.raised = NoneVal,
               !.raiser = NoneVal,
               !.spans = <<Event(MessageSpan, "start", NoneVal)>>]

TracedSendStart(tr, msg) ==
    [tr EXCEPT !.messages = IF msg \in Range(@) THEN @ ELSE Append(@, msg),
               !.next_id = IF msg.id >= @ THEN msg.id + 1 ELSE @,
               !.responses = <<>>,
               !.raised = NoneVal,
               !.raiser = NoneVal,
               !.spans = <<Event(MessageSpan, "start", NoneVal)>>]

\* "response = agent.receive(msg, self.tracer); if response:
\*  responses.append(response); self.messages.append(response)"
TracedDeliverDropsLog(acc, i, msg, fail) ==
    LET r == TracedReceive(i, msg, acc.memory[i], acc.next_id, fail)
        a1 == [acc EXCEPT !.memory[i] = r.memory, !.spans = @ \o r.spans]
    IN  CASE r.out.kind = "raise" ->
                [a1 EXCEPT !.raised = r.out.exc, !.raiser = i,
                           !.failed = @ \/ r.out.exc = RouteFailure]
          [] r.out.kind = "none"  -> a1
          [] r.out.kind = "msg"   ->
                [a1 EXCEPT !.responses = Append(@, r.out.msg),
                           !.next_id = @ + 1]

TracedDeliver(acc, i, msg, fail) ==
    LET r == TracedReceive(i, msg, acc.memory[i], acc.next_id, fail)
        a1 == [acc EXCEPT !.memory[i] = r.memory, !.spans = @ \o r.spans]
    IN  CASE r.out.kind = "raise" ->
                [a1 EXCEPT !.raised = r.out.exc, !.raiser = i,
                           !.failed = @ \/ r.out.exc = RouteFailure]
          [] r.out.kind = "none"  -> a1
          [] r.out.kind = "msg"   ->
                [a1 EXCEPT !.responses = Append(@, r.out.msg),
                           !.messages = Append(@, r.out.msg),
                           !.next_id = @ + 1]

\* "for name, agent in self.agents.items(): if name != msg.name", from k on
RECURSIVE TracedBroadcast(_, _, _, _, _)
TracedBroadcast(acc, ags, k, msg, fail) ==
    IF k > Len(ags) \/ acc.raised # NoneVal
    THEN acc
    ELSE TracedBroadcast(IF ags[k].name # msg.name
                         THEN TracedDeliver(acc, ags[k].inst, msg, fail)
                         ELSE acc,
                         ags, k + 1, msg, fail)

\* "if msg.to in self.agents: response = self.agents[msg.to].receive(...)"
TracedDirect(acc, ags, msg, fail) ==
    IF msg.to \in RegisteredNames(ags)
    THEN TracedDeliver(acc, ags[IndexOf(ags, msg.to)].inst, msg, fail)
    ELSE acc

\* TracedMessageBus.send on the traced bus tr: the span of the send ends
\* when the with block is left, by return or by exception
TracedSendResult(tr, msg, fail) ==
    LET acc == IF msg.to # NoneVal
               THEN TracedDirect(TracedSendStart(tr, msg), agents, msg, fail)
               ELSE TracedBroadcast(TracedSendStart(tr, msg), agents, 1, msg, fail)
    IN  [acc EXCEPT !.spans = Append(@, Event(MessageSpan, "end", NoneVal))]

(***************************************************************************)
(* SpecTraced: the same sends made on an untraced and on a traced travel   *)
(* system                                                                  *)
(***************************************************************************)
TracedSenders == {"User", "ScheduleExpert"}

TracedRecipients == {NoneVal, "Coordinator", "ScheduleExpert"}

TracedContents ==
    {TextContent("text"), DictContent("create_schedule", "places"),
     DictContent("schedule_response", "schedule")}

\* bus.send(msg) on both systems
SendBoth(msg, fail) ==
    /\ Send(msg)
    /\ traced' = TracedSendResult(traced, msg, fail)

\* a newly constructed envelope
TracedSendNew ==
    /\ sends < MaxTracedSends
    /\ \E n \in TracedSenders, r \in ShapeRoles, t \in TracedRecipients,
          c \in TracedContents, fail \in BOOLEAN :
          SendBoth(Msg(n, c, r, t, next_id), fail)
    /\ UNCHANGED <<graphVars, registered, run, final_output>>

\* an envelope that is already in the log
TracedSendLogged ==
    /\ sends < MaxTracedSends
    /\ \E k \in 1..Len(messages), fail \in BOOLEAN : SendBoth(messages[k], fail)
    /\ UNCHANGED <<graphVars, registered, run, final_output>>

TracedNext == TracedSendNew \/ TracedSendLogged

SpecTraced == ShapesInit /\ [][TracedNext]_vars

(***************************************************************************)
(* ObservableTravelPlanningSystem.run                                      *)
(***************************************************************************)
\* the locals after a send of the loop returned, or left run by raising
TracedAfterSendSuppresses(r, tr) ==
    EndOfRound([r EXCEPT !.next_responses = @ \o tr.responses,
                         !.produced = @ \o tr.responses])

TracedAfterSend(r, tr) ==
    IF tr.raised # NoneVal
    THEN [r EXCEPT !.pc = "raised"]
    ELSE EndOfRound([r EXCEPT !.next_responses = @ \o tr.responses,
                              !.produced = @ \o tr.responses])

\* one self.bus.send(msg) of the traced system; sends counts the calls
TracedSend(msg, fail) ==
    /\ traced' = TracedSendResult(traced, msg, fail)
    /\ sends' = sends + 1
    /\ UNCHANGED <<messages, agents, memory, coordinator_state, next_id, last, created>>

\* "user_msg = Msg(...); responses = self.bus.send(user_msg)"
TracedRunStart ==
    /\ run.pc = "idle"
    /\ \E fail \in BOOLEAN :
          LET user_msg == Msg("User", TextContent("request"), "user", "Coordinator",
                              traced.next_id)
              tr == TracedSendResult(traced, user_msg, fail)
              r == TracedAfterSend([run EXCEPT !.pc = "loop"], tr)
          IN  /\ TracedSend(user_msg, fail)
              /\ run' = r
              /\ final_output' = OutputAt(r, tr.messages)
    /\ UNCHANGED <<graphVars, registered>>

\* one pass of the body of "for response in responses"; fail is the draw of
\* random.random() < failure_rate in the ScheduleExpert
TracedRunForward ==
    /\ run.pc = "loop"
    /\ LET response == Head(run.responses)
           rest == [run EXCEPT !.responses = Tail(@)]
       IN  IF RunForwards(response)
           THEN \E fail \in BOOLEAN :
                   LET tr == TracedSendResult(traced, response, fail)
                       r == TracedAfterSend([rest EXCEPT !.forwarded = Append(@, response)],
                                            tr)
                   IN  /\ TracedSend(response, fail)
                       /\ run' = r
                       /\ final_output' = OutputAt(r, tr.messages)
           ELSE LET r == EndOfRound(rest)
                IN  /\ UNCHANGED <<busVars, traced>>
                    /\ run' = r
                    /\ final_output' = OutputAt(r, traced.messages)
    /\ UNCHANGED <<graphVars, registered>>

(***************************************************************************)
(* SpecTracedRun: run called on a traced travel system whose bus may have  *)
(* been used                                                               *)
(***************************************************************************)
\* system.bus.send(Msg(...)) before system.run(...)
TracedPreRunSend ==
    /\ run.pc = "idle"
    /\ sends < MaxTracedPreRunSends
    /\ \E n \in PreRunSenders, r \in ShapeRoles, t \in PreRunRecipients,
          c \in PreRunContents, fail \in BOOLEAN :
          TracedSend(Msg(n, c, r, t, traced.next_id), fail)
    /\ UNCHANGED <<graphVars, registered, run, final_output>>

TracedRunNext == TracedPreRunSend \/ TracedRunStart \/ TracedRunForward

SpecTracedRun == ShapesInit /\ [][TracedRunNext]_vars


(***************************************************************************)
(* Properties of the message bus                                           *)
(***************************************************************************)
\* the agents dict as it was when the last send call ran
SentTo(k) == last.agents[k]

IsSend == last.op = "send"

IsBroadcast == IsSend /\ last.msg.to = NoneVal

IsDirect == IsSend /\ last.msg.to # NoneVal

\* C1 (log containment): every envelope in the memory of any agent object is
\* also in bus.messages, in every state reached by register and send calls,
\* sends that abort on an exception included.
LogContainment ==
    \A i \in Inst : \A k \in 1..Len(memory[i]) : memory[i][k] \in Range(messages)

\* a send aborted by an exception after the envelope reached some memory
LogContainmentWitness ==
    /\ IsSend /\ last.raised
    /\ \E i \in Inst : memory[i] # <<>> /\ Last(memory[i]) = last.msg

\* C5 (broadcast exclusion): after a broadcast send in which nobody raised,
\* every registered agent whose name differs from the sender's name had
\* receive called exactly once with the envelope, and the agent registered
\* under the sender's name had it called zero times.
BroadcastExclusion ==
    (IsBroadcast /\ ~last.raised) =>
        \A k \in 1..Len(last.agents) :
            LET e == SentTo(k)
            IN  IF e.name # last.msg.name
                THEN /\ Count(last.delivered, e.inst) = 1
                     /\ memory[e.inst] = Append(last.memory[e.inst], last.msg)
                ELSE /\ Count(last.delivered, e.inst) = 0
                     /\ memory[e.inst] = last.memory[e.inst]

\* a broadcast by a registered sender that reached two other agents
BroadcastExclusionWitness ==
    /\ IsBroadcast /\ ~last.raised
    /\ last.msg.name \in RegisteredNames(last.agents)
    /\ Len(last.delivered) = 2

\* C6 (unroutable address): a send to a specific name that is not registered
\* raises nothing, returns an empty list, calls receive on nobody (every
\* memory unchanged) and at most appends the sent envelope to the log.
UnroutableIsSoft ==
    (IsDirect /\ last.msg.to \notin RegisteredNames(last.agents)) =>
        /\ ~last.raised
        /\ last.responses = <<>>
        /\ last.delivered = <<>>
        /\ memory = last.memory
        /\ messages \in {last.messages, Append(last.messages, last.msg)}

\* an unroutable send on a bus that has agents, once logging the envelope
UnroutableWitness ==
    /\ IsDirect /\ last.msg.to \notin RegisteredNames(last.agents)
    /\ Len(last.agents) >= 2
    /\ messages = Append(last.messages, last.msg)

\* C8 (receipt recorded before computation): when the response computation
\* raises, the exception leaves receive and send, and the memory of the
\* raising agent is its old memory followed by the envelope.
ReceiptBeforeProcess ==
    (IsSend /\ last.raised) =>
        /\ last.raiser \in Inst
        /\ last.raiser = Last(last.delivered)
        /\ memory[last.raiser] = Append(last.memory[last.raiser], last.msg)

\* a direct send whose addressee raised
ReceiptBeforeProcessWitness ==
    /\ IsDirect /\ last.raised
    /\ Last(memory[last.raiser]) = last.msg

\* the agents a broadcast visits among the first n entries of the dict
RECURSIVE VisitedUpTo(_, _, _)
VisitedUpTo(ags, n, sender) ==
    IF n = 0 THEN <<>>
    ELSE IF ags[n].name # sender
         THEN Append(VisitedUpTo(ags, n - 1, sender), ags[n].inst)
         ELSE VisitedUpTo(ags, n - 1, sender)

\* position in the dict of the agent that raised
RaiserIndex == CHOOSE k \in 1..Len(last.agents) : last.agents[k].inst = last.raiser

\* C9 (broadcast is fail-fast): when receive raises during a broadcast, no
\* agent later in dict order receives the envelope, the agents visited
\* before keep the envelope in memory, and their responses stay in the log.
BroadcastFailFast ==
    (IsBroadcast /\ last.raised) =>
        /\ last.delivered = VisitedUpTo(last.agents, RaiserIndex, last.msg.name)
        /\ \A k \in 1..Len(last.agents) :
              memory[SentTo(k).inst] =
                  IF k <= RaiserIndex /\ SentTo(k).name # last.msg.name
                  THEN Append(last.memory[SentTo(k).inst], last.msg)
                  ELSE last.memory[SentTo(k).inst]
        /\ messages = LogSent(last.messages, last.msg) \o last.responses

\* a broadcast aborted between an agent that answered and one never reached
BroadcastFailFastWitness ==
    /\ IsBroadcast /\ last.raised
    /\ Len(last.responses) >= 1
    /\ RaiserIndex < Len(last.agents)
    /\ last.agents[Len(last.agents)].name # last.msg.name

\* C10 (duplicate-free log): no two entries of bus.messages carry the same
\* envelope id, whatever the agents return and however often an envelope is sent.
LogDuplicateFree ==
    \A j, k \in 1..Len(messages) : j # k => messages[j].id # messages[k].id

\* C7 (no response is not an error): for the three variants and an envelope
\* of any sender, role and payload shape, receive returns a response or
\* nothing and never raises; when nothing is returned send returns an empty list.
ShapeNeverRaises ==
    IsSend =>
        /\ ~last.raised
        /\ (Len(messages) = Len(LogSent(last.messages, last.msg))) => last.responses = <<>>

(***************************************************************************)
(* Properties of the graph engine                                          *)
(***************************************************************************)
\* C2 (unmapped label is fatal): when the decision function of a node with
\* a conditional-edge entry returns a label that is no key of its route map,
\* invoke raises; it does not return a final state.
UnmappedLabelIsFatal ==
    (step.conditional /\ ~step.mapped) => status = "raised"

\* the step just made is the one the precedence rule speaks of: the node has
\* a fixed edge and a route map, and the route map has the returned label
BothEdgeKinds ==
    /\ step.node \in DOMAIN edges
    /\ step.node \in DOMAIN conditional_edges
    /\ step.route_key \in DOMAIN conditional_edges[step.node]

\* C3 (conditional precedence): at a node with a fixed edge to X and a route
\* map sending the returned label L to Y, the node visited next is Y, and X
\* is not taken as the successor.
ConditionalPrecedence ==
    BothEdgeKinds =>
        /\ current_node = conditional_edges[step.node][step.route_key]
        /\ (edges[step.node] # conditional_edges[step.node][step.route_key]
                => current_node # edges[step.node])

\* the fixed edge and the route map disagree, and the route map was followed
ConditionalPrecedenceWitness ==
    /\ BothEdgeKinds
    /\ edges[step.node] \in NodeNames
    /\ edges[step.node] # conditional_edges[step.node][step.route_key]
    /\ current_node = conditional_edges[step.node][step.route_key]

\* successors a node name has in the tables, fixed edges and route maps alike
Successors(n) ==
    (IF n \in DOMAIN edges THEN {edges[n]} \ {NoneVal} ELSE {})
    \cup (IF n \in DOMAIN conditional_edges
          THEN {conditional_edges[n][l] : l \in DOMAIN conditional_edges[n]}
          ELSE {})

\* names reachable from n in one to k edges
RECURSIVE ReachableIn(_, _)
ReachableIn(n, k) ==
    IF k = 1 THEN Successors(n)
    ELSE ReachableIn(n, k - 1) \cup UNION {Successors(m) : m \in ReachableIn(n, k - 1)}

Acyclic == \A n \in NodeNames : n \notin ReachableIn(n, Cardinality(NodeNames))

SuccessorsRegistered == \A n \in NodeNames : Successors(n) \subseteq nodes

\* C4 (graph termination): with acyclic tables whose successors are all
\* registered, whatever the decision function returns, invoke makes at most
\* |nodes| transitions from a node to its successor and then returns.
GraphTermination ==
    (Acyclic /\ SuccessorsRegistered) =>
        /\ status = "running" => Len(path) <= Cardinality(nodes)
        /\ status = "returned" => Len(path) - 1 <= Cardinality(nodes)
        /\ Cardinality(nodes) < MaxSteps

\* a run over every node of an acyclic graph, through a route map, has returned
GraphTerminationWitness ==
    /\ Acyclic /\ SuccessorsRegistered
    /\ status = "returned"
    /\ Len(path) = Cardinality(NodeNames)
    /\ \E k \in 1..Len(path) : path[k] \in DOMAIN conditional_edges

(***************************************************************************)
(* Further properties of the message bus                                   *)
(***************************************************************************)
\* s is a subsequence of t: the entries of s occur in t in the same order,
\* each at a position of its own
RECURSIVE IsSubsequence(_, _)
IsSubsequence(s, t) ==
    IF s = <<>> THEN TRUE
    ELSE IF t = <<>> THEN FALSE
    ELSE IF Head(s) = Head(t) THEN IsSubsequence(Tail(s), Tail(t))
    ELSE IsSubsequence(s, Tail(t))

\* C11 as stated (history is a subsequence of the log): after any sequence
\* of sends, every memory, in receipt order, is a subsequence of bus.messages.
HistoryIsSubsequence ==
    \A i \in Inst : IsSubsequence(memory[i], messages)

\* C11 as amended: a send of an envelope that is not yet in the log keeps
\* every memory a subsequence of bus.messages.
NewSendKeepsSubsequence ==
    [][(/\ HistoryIsSubsequence
        /\ sends' = sends + 1
        /\ last'.msg \notin Range(messages))
       => HistoryIsSubsequence']_vars

\* two new envelopes were sent and delivered to one agent, whose memory is
\* still a subsequence of the log
NewSendKeepsSubsequenceWitness ==
    /\ HistoryIsSubsequence
    /\ sends = 2
    /\ last.msg \notin Range(last.messages)
    /\ \E i \in Inst : Len(memory[i]) = 2 /\ memory[i][1] # memory[i][2]

\* positions in the dict of the agents that answer the broadcast envelope
ResponderPositions ==
    {k \in 1..Len(last.agents) :
        /\ SentTo(k).name # last.msg.name
        /\ Process(SentTo(k).inst, last.msg, "idle", 0).kind = "msg"}

\* C14 (deterministic broadcast order): the list a broadcast send returns
\* holds exactly the responses of the responding agents, in the order of
\* their registration: the j-th response is the one of the j-th responder
\* of the dict.
BroadcastOrder ==
    (IsBroadcast /\ ~last.raised) =>
        /\ Len(last.responses) = Cardinality(ResponderPositions)
        /\ \A k \in ResponderPositions :
              LET j == Cardinality({h \in ResponderPositions : h <= k})
              IN  last.responses[j] =
                      Process(SentTo(k).inst, last.msg, "idle", last.responses[j].id).msg

\* B registered before A, both answer a broadcast: B's answer comes first
BroadcastOrderWitness ==
    /\ IsBroadcast /\ ~last.raised
    /\ Len(last.responses) = 2
    /\ IndexOf(last.agents, "B") < IndexOf(last.agents, "A")
    /\ last.responses[1] = last.msg
    /\ last.responses[2].name = "A"

\* every envelope held by the log or by a memory
HeldEnvelopes == Range(messages) \cup UNION {Range(memory[i]) : i \in Inst}

\* C20 (envelope immutability under routing): every envelope in the log or
\* in a memory has the content, the sender name and the id it was
\* constructed with, after any sequence of register and send calls.
EnvelopeImmutable ==
    \A m \in HeldEnvelopes :
        /\ m.id \in 1..Len(created)
        /\ m.content = created[m.id].content
        /\ m.name = created[m.id].name
        /\ m.id = created[m.id].id

\* an envelope sent twice sits in the log and twice in a memory, next to a
\* response constructed during delivery
EnvelopeImmutableWitness ==
    /\ IsSend /\ sends = 2
    /\ last.msg \in Range(last.messages)
    /\ \E i \in Inst : Count(memory[i], last.msg) = 2
    /\ \E m \in Range(messages) : m.name = "A" /\ m.content.action = "pong"

\* the agent objects that are values of the dict ags
RegisteredInst(ags) == {ags[k].inst : k \in 1..Len(ags)}

\* C15 (register is last-write-wins): a register call raises nothing and
\* leaves exactly one entry for the name, holding the agent object just
\* passed, with every other entry and every memory as before; a send calls
\* receive only on agent objects that are values of the dict, so the memory
\* of a replaced agent object never grows again.
RegisterLastWriteWins ==
    [][/\ (sends' = sends) =>
            LET n == AgentName(registered')
            IN  /\ Cardinality({k \in 1..Len(agents') : agents'[k].name = n}) = 1
                /\ agents'[IndexOf(agents', n)].inst = registered'
                /\ Len(agents') = IF n \in RegisteredNames(agents)
                                  THEN Len(agents) ELSE Len(agents) + 1
                /\ \A k \in 1..Len(agents) :
                      agents[k].name # n => agents'[k] = agents[k]
                /\ memory' = memory
       /\ (sends' = sends + 1) =>
            /\ Range(last'.delivered) \subseteq RegisteredInst(agents)
            /\ \A i \in Inst \ RegisteredInst(agents) : memory'[i] = memory[i]
      ]_vars

\* an agent object that received an envelope was replaced under its name,
\* and the next send for that name reached only the new agent object
RegisterLastWriteWinsWitness ==
    /\ IsDirect /\ last.msg.to = "B" /\ sends = 2
    /\ \E i, j \in StubInst :
          /\ i # j /\ AgentName(i) = "B" /\ AgentName(j) = "B"
          /\ i \notin RegisteredInst(agents) /\ j \in RegisteredInst(agents)
          /\ Len(memory[i]) = 1 /\ memory[i][1] # last.msg
          /\ last.delivered = <<j>> /\ memory[j] = <<last.msg>>

(***************************************************************************)
(* Further properties of the graph engine                                  *)
(***************************************************************************)
\* C16 (merge leaves unmentioned fields untouched): after a node execution
\* inside invoke, every field that is no key of the returned update has the
\* value it had before, and every field that is a key has the returned value.
MergeFrame ==
    step.executed =>
        /\ DOMAIN state = DOMAIN step.before \cup DOMAIN step.result
        /\ \A f \in DOMAIN state :
              state[f] = IF f \in DOMAIN step.result
                         THEN step.result[f]
                         ELSE step.before[f]

\* a node overwrote priority with a different value and left raw_request alone
MergeFrameWitness ==
    /\ step.executed
    /\ "priority" \in DOMAIN step.result
    /\ step.result["priority"] # step.before["priority"]
    /\ state["priority"] = step.result["priority"]
    /\ state["raw_request"] = step.before["raw_request"]

\* C17 (a missing step reference is surfaced): when the traversal reaches a
\* node name that is not registered, invoke raises instead of skipping the
\* node and going on or ending.
MissingNodeIsSurfaced ==
    (step.node # NoneVal /\ ~step.executed) => status = "raised"

(***************************************************************************)
(* Properties of the travel planning system                                *)
(***************************************************************************)
\* positions of the log holding a final result of the Coordinator
FinalResults ==
    {k \in 1..Len(messages) :
        /\ messages[k].name = "Coordinator"
        /\ messages[k].content.type = "dict"
        /\ messages[k].content.action = "final_result"}

\* C13 (artifact extraction): _format_final_output returns what
\* _format_schedule makes of the schedule of the last envelope of the log
\* whose sender is Coordinator and whose dict content has the action
\* final_result; when the log holds no such envelope it returns the fixed
\* no-result string and does not raise.
ArtifactExtraction ==
    (final_output # NotCalled) =>
        IF FinalResults = {}
        THEN final_output = Returned(NoResultText, NoneVal)
        ELSE LET k == CHOOSE k \in FinalResults : \A h \in FinalResults : h <= k
             IN  final_output = FormatSchedule(ContentGet(messages[k].content, "empty"))

\* two final results with different schedules, then another envelope: the
\* schedule of the second one is returned
ArtifactExtractionWitness ==
    /\ Len(messages) = 3
    /\ FinalResults = {1, 2}
    /\ messages[1].content.data = "schedule"
    /\ messages[2].content.data = "other_schedule"
    /\ final_output = Returned("formatted", "other_schedule")

IsAddressed(m) == m.to # NoneVal

\* the envelopes of s that name a recipient, in the order of s
Addressed(s) == SelectSeq(s, IsAddressed)

\* C12 as stated (breadth-first draining): when run leaves its loop, every
\* response returned by a send of the run was passed to bus.send, whatever
\* its recipient.
EveryResponseForwarded ==
    (run.pc = "done") => run.forwarded = run.produced

\* C12 as amended: run passes to bus.send exactly the responses that name a
\* recipient, in the order in which they were returned (all of one round
\* before any of the next), never a broadcast response, and leaves the loop
\* only when no response is left of the round and none was returned in it.
AddressedResponsesDrained ==
    (run.pc \in {"loop", "done"}) =>
        /\ Addressed(run.produced) =
              run.forwarded \o Addressed(run.responses \o run.next_responses)
        /\ \A k \in 1..Len(run.forwarded) : run.forwarded[k].to # NoneVal
        /\ (run.pc = "done") => (run.responses = <<>> /\ run.next_responses = <<>>)

\* run ended after forwarding four responses; the fifth, the broadcast
\* final result, was returned to run and not sent
AddressedResponsesDrainedWitness ==
    /\ run.pc = "done"
    /\ Len(run.forwarded) = 4
    /\ Len(run.produced) = 5
    /\ Last(run.produced).to = NoneVal
    /\ Last(run.produced) \notin Range(run.forwarded)
    /\ final_output.kind = "return"

(***************************************************************************)
(* Properties of the traced system                                         *)
(***************************************************************************)
\* C18 (instrumentation does not change core behaviour): as long as the
\* failure of the traced ScheduleExpert has not fired, after the same sends
\* the traced and the untraced system have the same log, the same memories
\* and returned the same response list (or both raised).
InstrumentationTransparent ==
    (~traced.failed) =>
        /\ traced.messages = messages
        /\ \A i \in Inst : traced.memory[i] = memory[i]
        /\ IsSend => /\ traced.responses = last.responses
                     /\ (traced.raised # NoneVal) = last.raised

\* an envelope was sent a second time and answered, on both systems
InstrumentationTransparentWitness ==
    /\ ~traced.failed
    /\ IsSend /\ sends = 2
    /\ last.msg \in Range(last.messages)
    /\ traced.responses # <<>>
    /\ Len(traced.messages) >= 3
    /\ \E i \in Inst : Len(traced.memory[i]) = 2

\* positions of the events ev on span sp among the events of the last send
EventsAt(sp, ev) ==
    {k \in 1..Len(traced.spans) : traced.spans[k].span = sp /\ traced.spans[k].ev = ev}

\* C19 (error is reported to the observer before propagation): when the
\* response computation of a traced agent raises, the span of that receive
\* is given the error status with the description of the exception, then
\* the exception is recorded on it, both before the span ends and the
\* exception leaves receive; the exception that leaves send is that one.
ErrorReportedBeforePropagation ==
    (traced.raised # NoneVal) =>
        LET sp == AgentSpan(traced.raiser)
        IN  \E a \in EventsAt(sp, "set_status_error"),
               b \in EventsAt(sp, "record_exception"),
               c \in EventsAt(sp, "end") :
                /\ a < b /\ b < c
                /\ traced.spans[a].arg = traced.raised
                /\ traced.spans[b].arg = traced.raised
                /\ EventsAt(sp, "end") = {c}
                /\ traced.raised \in {AttributeError, RouteFailure}

\* the route optimisation of the ScheduleExpert failed during a send
ErrorReportedBeforePropagationWitness ==
    /\ traced.raised = RouteFailure
    /\ traced.raiser = "schedule_expert"
    /\ Last(traced.memory["schedule_expert"]) = last.msg
    /\ Len(traced.spans) >= 6

\* the label route_by_priority returns for the context that results from
\* merging the last node's update into the context it was given
LabelAfterMerge ==
    LET priority == IF "priority" \in DOMAIN step.result
                    THEN step.result["priority"]
                    ELSE step.before["priority"]
    IN  IF priority = "minimize_travel" THEN "minimize" ELSE "variety"

\* C26 (the decision function sees the updated context): at an executed
\* node with a conditional edge, the label and the successor are computed
\* from the context that includes the node's own update.
DecisionSeesUpdate ==
    (step.conditional /\ step.executed) =>
        /\ step.route_key = LabelAfterMerge
        /\ current_node = Get(conditional_edges[step.node], LabelAfterMerge)

\* a node turned priority from maximize_variety into minimize_travel, and
\* the route map, which sends the two labels to different nodes, was
\* followed for minimize
DecisionSeesUpdateWitness ==
    /\ step.conditional /\ step.executed
    /\ step.before["priority"] = "maximize_variety"
    /\ "priority" \in DOMAIN step.result
    /\ step.result["priority"] = "minimize_travel"
    /\ DOMAIN conditional_edges[step.node] = Labels
    /\ conditional_edges[step.node]["minimize"] # conditional_edges[step.node]["variety"]
    /\ current_node = conditional_edges[step.node]["minimize"]

\* the last iteration ran on a node without successor: no route map, and
\* no fixed edge or a fixed edge to None
EndedAtTerminal ==
    /\ status = "returned"
    /\ ~step.conditional
    /\ step.node \in nodes

\* C28 (the last step is executed): a registered node that has no successor
\* is executed, exactly once, and its update is merged into the context
\* invoke returns.
LastStepExecuted ==
    EndedAtTerminal =>
        /\ step.executed
        /\ Last(path) = step.node
        /\ Count(path, step.node) = 1
        /\ \A f \in DOMAIN step.result : state[f] = step.result[f]
        /\ \A f \in DOMAIN step.before \ DOMAIN step.result : state[f] = step.before[f]

\* invoke returned after a second node, absent from both edge tables, whose
\* update changed priority
LastStepExecutedWitness ==
    /\ EndedAtTerminal
    /\ Len(path) >= 2
    /\ step.node \notin DOMAIN edges
    /\ "priority" \in DOMAIN step.result
    /\ step.result["priority"] # step.before["priority"]
    /\ state["priority"] = step.result["priority"]

\* the last node had been visited before
Revisited == \E k \in 1..(Len(path) - 1) : path[k] = step.node

\* every name the traversal can reach always has a successor
NoExit ==
    \A n \in {entry_point} \cup ReachableIn(entry_point, Cardinality(NodeNames)) :
        IF n \in DOMAIN conditional_edges
        THEN DOMAIN conditional_edges[n] = Labels
        ELSE n \in DOMAIN edges /\ edges[n] # NoneVal

\* C29 (revisiting is unrestricted): a node reached again is executed again
\* on the then-current context and the traversal goes on to the successor
\* the tables give, without raising; and when every reachable name always
\* has a successor, invoke does not return.
RevisitUnrestricted ==
    /\ (Revisited /\ step.node \in nodes) =>
          /\ step.executed
          /\ status # "raised"
          /\ \A f \in DOMAIN step.result : state[f] = step.result[f]
          /\ current_node = step.next
          /\ (step.next # NoneVal => status = "running")
    /\ NoExit => status # "returned"

\* a cycle without exit: a node was executed a second time and invoke is
\* still running
RevisitUnrestrictedWitness ==
    /\ NoExit
    /\ Revisited /\ step.executed
    /\ Count(path, step.node) >= 2
    /\ "priority" \in DOMAIN step.result
    /\ status = "running"


(***************************************************************************)
(* Properties of the travel graph                                          *)
(***************************************************************************)
\* C30: in the travel graph entered at parse_request, select_places_variety
\* is never executed whatever context the caller passes: once parse_request
\* has run the constraints hold the minimize-travel constraint, once
\* analyze_preferences has run the priority is minimize_travel, and the
\* decision function returns minimize
VarietyNeverExecuted ==
    /\ "select_places_variety" \notin Range(path)
    /\ current_node # "select_places_variety"
    /\ (status # "raised" /\ "parse_request" \in Range(path))
           => MinimizeRoute \in Range(state["constraints"])
    /\ (status # "raised" /\ "analyze_preferences" \in Range(path))
           => state["priority"] = "minimize_travel"
    /\ (step.node = "analyze_preferences" /\ status # "raised")
           => step.route_key = "minimize"

VarietyNeverExecutedWitness ==
    /\ status = "returned"
    /\ "select_places_minimize" \in Range(path)
    /\ "priority" \in DOMAIN initial_state
    /\ initial_state["priority"] = "maximize_variety"
    /\ MinimizeRoute \notin Range(initial_state["constraints"])


\* priority values a context may hold when the decision is taken
OtherPriorities == {"", "maximize_variety", "budget"}

\* C21: in the travel graph the node after analyze_preferences is
\* select_places_minimize when the context's priority is minimize_travel (the
\* decision label is minimize), and select_places_variety is then not
\* visited; with any other priority the node that follows is
\* select_places_variety
BranchByPriority ==
    /\ (step.node = "analyze_preferences" /\ status # "raised"
            /\ state["priority"] = "minimize_travel")
           => /\ step.route_key = "minimize"
              /\ current_node = "select_places_minimize"
    /\ (\E k \in 1..(Len(path) - 1) :
            path[k] = "analyze_preferences" /\ path[k + 1] = "select_places_minimize")
           => "select_places_variety" \notin Range(path) \cup {current_node}
    /\ NextNode("analyze_preferences", Update(state, [priority |-> "minimize_travel"]))
           = "select_places_minimize"
    /\ \A p \in OtherPriorities :
           NextNode("analyze_preferences", Update(state, [priority |-> p]))
               = "select_places_variety"

BranchByPriorityWitness ==
    /\ status = "returned"
    /\ \E k \in 1..(Len(path) - 1) :
           path[k] = "analyze_preferences" /\ path[k + 1] = "select_places_minimize"
    /\ state["priority"] = "minimize_travel"


\* state.get("execution_log", []) as a reader of the context sees it
LogOf(st) == IF "execution_log" \in DOMAIN st THEN st["execution_log"] ELSE <<>>

IsProperPrefix(s, t) == Len(s) < Len(t) /\ SubSeq(t, 1, Len(s)) = s

\* C25: execution_log only grows during a run of the travel graph: the log
\* before each executed node is a proper prefix of the log after it, so the
\* log of a finished run is the caller's log followed by the lines of every
\* executed node in execution order
LogOnlyGrows ==
    /\ (step.executed /\ status # "raised")
           => /\ IsProperPrefix(LogOf(step.before), LogOf(state))
              /\ LogOf(state) = LogOf(step.before) \o <<step.node>>
    /\ status \in {"running", "returned"}
           => LogOf(state) = LogOf(initial_state) \o path

LogOnlyGrowsWitness ==
    /\ status = "returned"
    /\ Len(path) = 5
    /\ LogOf(initial_state) = <<"earlier">>
    /\ Len(LogOf(state)) = 6


FreshRun == run.pc # "idle" /\ sends = Len(run.forwarded) + 1

IsEnvelope(m, name, to, action) ==
    m.name = name /\ m.to = to /\ m.content.action = action

\* C24: after run on a freshly built system the log is exactly six
\* envelopes, in this order: User to Coordinator, request_places to
\* PlaceExpert, places_response to Coordinator, create_schedule to
\* ScheduleExpert, schedule_response to Coordinator, and the final_result
\* broadcast of the Coordinator
DocumentedFlow ==
    (FreshRun /\ run.pc = "done")
        => /\ Len(messages) = 6
           /\ IsEnvelope(messages[1], "User", "Coordinator", NoneVal)
           /\ messages[1].role = "user"
           /\ IsEnvelope(messages[2], "Coordinator", "PlaceExpert", "request_places")
           /\ IsEnvelope(messages[3], "PlaceExpert", "Coordinator", "places_response")
           /\ IsEnvelope(messages[4], "Coordinator", "ScheduleExpert", "create_schedule")
           /\ IsEnvelope(messages[5], "ScheduleExpert", "Coordinator", "schedule_response")
           /\ IsEnvelope(messages[6], "Coordinator", NoneVal, "final_result")

DocumentedFlowWitness ==
    /\ FreshRun
    /\ run.pc = "done"
    /\ Len(messages) = 6
    /\ Len(run.forwarded) = 4
    /\ final_output = Returned("formatted", "schedule")


\* the last send named a registered recipient
DirectDelivery == last.op = "send" /\ last.msg.to \in RegisteredNames(last.agents)

Addressee == last.agents[IndexOf(last.agents, last.msg.to)].inst

\* C27: a send to a registered name calls receive exactly once, on the
\* participant registered under that name; the memory of every other
\* participant is unchanged; the log gains only the sent envelope (if not
\* yet logged) followed by the response (if one is produced), and that
\* response is the single element of the returned list
DirectTouchesAddressee ==
    DirectDelivery
        => /\ last.delivered = <<Addressee>>
           /\ memory[Addressee] = Append(last.memory[Addressee], last.msg)
           /\ \A i \in Inst \ {Addressee} : memory[i] = last.memory[i]
           /\ Len(last.responses) <= 1
           /\ last.responses # <<>> => last.responses[1].name = last.msg.to
           /\ messages = LogSent(last.messages, last.msg) \o last.responses
           /\ messages =
                  last.messages
                  \o (IF last.msg \in Range(last.messages) THEN <<>> ELSE <<last.msg>>)
                  \o last.responses

DirectTouchesAddresseeWitness ==
    /\ DirectDelivery
    /\ last.msg \in Range(last.messages)
    /\ Len(last.responses) = 1
    /\ Len(messages) = Len(last.messages) + 1
    /\ \E i \in Inst \ {Addressee} : memory[i] # <<>>


(***************************************************************************)
(* Properties of the traced run                                            *)
(***************************************************************************)
\* run was called on a traced system whose bus had carried no send
FreshTracedRun == run.pc # "idle" /\ sends = Len(run.forwarded) + 1

\* entries k .. k + 3 of the log are the four envelopes that precede the
\* ScheduleExpert's computation
FlowUpToSchedule(log, k) ==
    /\ IsEnvelope(log[k], "User", "Coordinator", NoneVal)
    /\ log[k].role = "user"
    /\ IsEnvelope(log[k + 1], "Coordinator", "PlaceExpert", "request_places")
    /\ IsEnvelope(log[k + 2], "PlaceExpert", "Coordinator", "places_response")
    /\ IsEnvelope(log[k + 3], "Coordinator", "ScheduleExpert", "create_schedule")

\* C22: when the ScheduleExpert's computation raises during run of the
\* traced system, the exception leaves run (nothing is retried or
\* suppressed), run returns no string, the no-result string included, and
\* the log then holds exactly the user request, request_places,
\* places_response and create_schedule, with no final_result
CrashIsNotNoResult ==
    /\ (run.pc # "idle" /\ traced.raised # NoneVal)
           => /\ run.pc = "raised"
              /\ final_output = NotCalled
    /\ (run.pc = "raised" /\ traced.raiser = "schedule_expert")
           => /\ traced.raised = RouteFailure
              /\ Len(run.forwarded) = 3
              /\ Len(traced.messages) >= 4
              /\ FlowUpToSchedule(traced.messages, Len(traced.messages) - 3)
              /\ FreshTracedRun
                     => /\ Len(traced.messages) = 4
                        /\ \A k \in 1..Len(traced.messages) :
                               traced.messages[k].content.action # "final_result"
    /\ run.pc = "done" => final_output.kind \in {"return", "raise"}

CrashIsNotNoResultWitness ==
    /\ run.pc = "raised"
    /\ traced.raiser = "schedule_expert"
    /\ traced.raised = RouteFailure
    /\ FreshTracedRun
    /\ Len(traced.messages) = 4
    /\ final_output = NotCalled


\* the one linear path of the travel graph through the minimize branch or
\* the variety branch
LinearPaths ==
    {<<"parse_request", "analyze_preferences", s, "generate_schedule", "format_output">> :
        s \in {"select_places_minimize", "select_places_variety"}}

\* C31: for every initial context, invoke on the travel graph ends by
\* returning, after executing exactly five nodes, each once, in the order
\* parse_request, analyze_preferences, one of the two select_places nodes,
\* generate_schedule, format_output; the decision function never returns a
\* label missing from the routing table
TravelCompletes ==
    /\ status # "raised"
    /\ status = "running" => \E p \in LinearPaths : path = SubSeq(p, 1, Len(path))
    /\ status = "returned" => path \in LinearPaths
    /\ (step.conditional /\ status # "raised") => step.mapped
    /\ step.node # NoneVal => step.executed


\* C32: run on a freshly built system always ends with a result: the loop is
\* never stuck and never raises, it ends after exactly five send calls, the
\* Coordinator has then received three envelopes and each expert one, and
\* run returns the formatted schedule, not the no-result text
RunEndsWithResult ==
    FreshRun
        => /\ run.pc \in {"loop", "done"}
           /\ run.pc = "loop" => run.responses # <<>>
           /\ sends <= 5
           /\ run.pc = "done"
                  => /\ sends = 5
                     /\ Len(memory["coordinator"]) = 3
                     /\ Len(memory["place_expert"]) = 1
                     /\ Len(memory["schedule_expert"]) = 1
                     /\ final_output = Returned("formatted", "schedule")
                     /\ final_output.text # NoResultText

RunEndsWithResultWitness ==
    /\ FreshRun
    /\ run.pc = "done"
    /\ sends = 5
    /\ Len(memory["coordinator"]) = 3
    /\ final_output.kind = "return"
    /\ final_output.text = "formatted"


(***************************************************************************)
(* Properties of the Coordinator and of the log                            *)
(***************************************************************************)
\* the step is a send in which the Coordinator's _process was called
CoordinatorProcessed == sends' = sends + 1 /\ "coordinator" \in Range(last'.delivered)

\* C33: CoordinatorAgent.state is one of idle, collecting, finalizing; it is
\* idle at construction and never returns to idle; it becomes collecting
\* exactly when an envelope with role user is processed, finalizing exactly
\* when an envelope with another role from sender ScheduleExpert is
\* processed, and every other envelope leaves it unchanged; after a complete
\* run it is finalizing
CoordinatorStateMachine ==
    [][/\ coordinator_state' \in {"idle", "collecting", "finalizing"}
       /\ sends = 0 => coordinator_state = "idle"
       /\ coordinator_state' = "idle" => coordinator_state = "idle"
       /\ coordinator_state' =
              IF CoordinatorProcessed /\ last'.msg.role = "user"
              THEN "collecting"
              ELSE IF CoordinatorProcessed /\ last'.msg.name = "ScheduleExpert"
              THEN "finalizing"
              ELSE coordinator_state
       /\ run'.pc = "done" => coordinator_state' = "finalizing"]_vars

CoordinatorStateMachineWitness ==
    /\ run.pc = "done"
    /\ coordinator_state = "finalizing"
    /\ Len(memory["coordinator"]) = 4
    /\ memory["coordinator"][1].name = "ScheduleExpert"
    /\ memory["coordinator"][1].role = "assistant"
    /\ memory["coordinator"][2].role = "user"


IsPrefix(s, t) == Len(s) <= Len(t) /\ SubSeq(t, 1, Len(s)) = s

\* in log after, every response of the send of msg was appended by this send
\* (it lies beyond the length of log before) behind an entry that is msg
ResponsesFollow(before, after, msg, responses) ==
    \A r \in Range(responses) :
        \E j, k \in 1..Len(after) :
            /\ j < k
            /\ Len(before) < k
            /\ after[j] = msg
            /\ after[k] = r

\* C34: the log is append-only and causally ordered, on the plain and on the
\* traced bus: across any sequence of sends the log before an operation is a
\* prefix of the log after it, and every response envelope is at a later log
\* position than the envelope whose delivery produced it
LogAppendOnly ==
    [][/\ IsPrefix(messages, messages')
       /\ IsPrefix(traced.messages, traced'.messages)
       /\ sends' = sends + 1
              => /\ ResponsesFollow(messages, messages', last'.msg, last'.responses)
                 /\ ResponsesFollow(traced.messages, traced'.messages, last'.msg,
                                    traced'.responses)]_vars

LogAppendOnlyWitness ==
    /\ sends = 2
    /\ Len(messages) = 3
    /\ Len(traced.messages) = 3
    /\ last.responses # <<>>
    /\ traced.responses = last.responses
    /\ last.msg = messages[1]
    /\ messages[3] \in Range(last.responses)


\* the last send was of an envelope that was in the log already
Resend == last.op = "send" /\ last.msg \in Range(last.messages)

\* C35: deduplication applies to logging only: a send of an envelope that is
\* already in the log, as the run loop makes with every response, does not
\* append the envelope again but still delivers it, so the memory of the
\* recipient grows by one on every such send
ResendStillDelivers ==
    Resend
        => /\ Count(messages, last.msg) = Count(last.messages, last.msg)
           /\ messages = last.messages \o last.responses
           /\ last.msg.to \in RegisteredNames(last.agents)
                  => /\ Addressee \in Range(last.delivered)
                     /\ Len(memory[Addressee]) = Len(last.memory[Addressee]) + 1
                     /\ Last(memory[Addressee]) = last.msg
           /\ \A i \in Range(last.delivered) :
                  memory[i] = Append(last.memory[i], last.msg)

ResendStillDeliversWitness ==
    /\ Resend
    /\ run.pc \in {"loop", "done"}
    /\ run.forwarded # <<>>
    /\ last.msg = Last(run.forwarded)
    /\ Count(messages, last.msg) = 1
    /\ Count(memory[Addressee], last.msg) = 1
    /\ last.msg.name = "ScheduleExpert"


\* C36: invoke does not overwrite the caller's initial context: the
\* traversal works on a copy, so through every iteration, up to the return
\* or the raise, each top-level field of the mapping passed as initial_state
\* keeps the value it had at the call, whatever the nodes returned
CallerContextKept ==
    [][status = "running"
          => /\ DOMAIN initial_state' = DOMAIN initial_state
             /\ \A f \in DOMAIN initial_state : initial_state'[f] = initial_state[f]]_vars

CallerContextKeptWitness ==
    /\ status = "returned"
    /\ Len(path) = 5
    /\ DOMAIN initial_state = {"raw_request"}
    /\ "final_output" \in DOMAIN state
    /\ state["priority"] = "minimize_travel"

====
